---- MODULE Spec2Model ----
(***************************************************************************)
(* A model of genmq (src/src/genmq.py): the artifact merger                *)
(* GenMoodleQuiz.merge_xml, the artifact splitter Splitter, the batch loop *)
(* GenMoodleQuiz.run with gen_files and compile_files, and the rewriting   *)
(* of the rendered document in render_file.                                *)
(*                                                                         *)
(* A Moodle XML file is modelled by its status and the sequence of the     *)
(* children of its root element; a child is a record holding its tag, its  *)
(* type attribute and (src, pos), the file and position it was read from,  *)
(* which gives every node an identity so that order and duplication can be *)
(* observed.                                                               *)
(***************************************************************************)
EXTENDS Integers, Sequences, FiniteSets, TLC

(***************************************************************************)
(* Bounds of the model.                                                    *)
(***************************************************************************)
MaxInputs == 3
MaxTotalNodes == 3
MaxDocNodes == 5
MaxSizeDocNodes == 3
MaxQPerFile == 3
MaxNFiles == 3
MaxSizeMiB == 2
MaxBudgetMB == 2

VARIABLES
    \* ---- merge_xml ----
    mode,          \* "normal" (GenMoodleQuiz.run) or "merge" (cli, --mergexml)
    fs,            \* the working directory: path -> file
    fs0,           \* history: the working directory when merge_xml was called
    xml_files,     \* merge_xml's argument: the ordered input paths
    outPath,       \* the path f"{xmlfilename}.xml"
    delete_temps,  \* self.delete_temps
    roots,         \* the list of parsed roots; roots[1] is `base`
    di,            \* position of the deletion loop in xml_files
    mpc,           \* position in merge_xml
    merr           \* the exception merge_xml ended with, if any

VARIABLES
    \* ---- Splitter ----
    xmlfile,       \* the file at self.xmlfile
    sargs,         \* the arguments of split_by_number / split_by_size
    filesize,      \* self.xmlfile.stat().st_size, once read
    max_n_files,   \* split_by_size's local of that name
    root,          \* the template root returned by read_xml_file
    q_list,        \* the questions returned by read_xml_file
    q_per_file,    \* split_q_per_file's parameters
    n_files,
    working_root,  \* split_q_per_file's locals
    qidx,
    fidx,
    qpos,          \* position of the for loop in q_list
    chunks,        \* the files written by write_xml_file, in write order
    spc,           \* position in the splitter
    sret,          \* the value the split operation returned
    serr           \* the exception the splitter ended with, if any

mvars == <<mode, fs, fs0, xml_files, outPath, delete_temps, roots, di, mpc, merr>>

svars == <<xmlfile, sargs, filesize, max_n_files, root, q_list, q_per_file,
           n_files, working_root, qidx, fidx, qpos, chunks, spc, sret, serr>>

VARIABLES
    \* ---- GenMoodleQuiz.run, gen_files, compile_files ----
    nrec,          \* the number of rows of self.df_gq that run() processes
    pythontex,     \* self.pythontex
    logfile,       \* self.logfile
    jpc,           \* position of each row's gen_files call
    wd,            \* the temporary files of the working directory:
                   \* name -> the job whose step wrote it last, 0 if absent
    passes,        \* the subprocess.run calls of each compile_files call
    tempxmlfiles,  \* self.tempxmlfiles
    jraised,       \* the exception pending in each gen_files' try block
    \* ---- render_file's rewriting of the rendered document ----
    document,      \* render_file's local of that name, a line of tokens
    document1,     \* history: document after the rewriting was applied once
    napplied       \* how many times the rewriting has been applied

jvars == <<nrec, pythontex, logfile, jpc, wd, passes, tempxmlfiles, jraised,
           document, document1, napplied>>

vars == <<mvars, svars, jvars>>

(***************************************************************************)
(* Files and nodes.                                                        *)
(***************************************************************************)
NoPath == 0 - 1

\* The path of the output when it is no input; inputs are the paths 1..n.
FreshOut == 0

Paths == 0..MaxInputs

Missing == [st |-> "missing", kids |-> <<>>]

Malformed == [st |-> "malformed", kids |-> <<>>]

XmlDoc(kids) == [st |-> "ok", kids |-> kids]

\* The children a root can have, as the code tells them apart: el.tag and
\* el.attrib["type"].
NodeShapes ==
    { [tag |-> "question", type |-> "category"],
      [tag |-> "question", type |-> "multichoice"],
      [tag |-> "info", type |-> "none"] }

ShapesUpTo(t) == UNION { [1..k -> NodeShapes] : k \in 0..t }

FileShapes(t) == { XmlDoc(s) : s \in ShapesUpTo(t) } \cup {Missing, Malformed}

\* Every way to fill n files with at most t nodes in all.
RECURSIVE Configs(_, _)
Configs(n, t) ==
    IF n = 0 THEN { <<>> }
    ELSE UNION { { <<c>> \o rest : rest \in Configs(n - 1, t - Len(c.kids)) }
                 : c \in FileShapes(t) }

\* The file at path p with the shape c: every node gets its identity.
Stamp(c, p) ==
    [st |-> c.st,
     kids |-> [i \in 1..Len(c.kids) |->
                 [tag |-> c.kids[i].tag, type |-> c.kids[i].type,
                  src |-> p, pos |-> i]]]

\* A file left at the output path by an earlier run.
OldOutput == Stamp(XmlDoc(<<[tag |-> "question", type |-> "category"]>>), FreshOut)

NoError == [kind |-> "none", path |-> NoPath]

\* Python's None, and an int, as the values of an optional.
None == [some |-> FALSE, val |-> 0]

Some(v) == [some |-> TRUE, val |-> v]

\* The merger's variables while only the splitter runs.
MergerIdle ==
    /\ mode = "split"
    /\ fs = [p \in Paths |-> Missing]
    /\ fs0 = fs
    /\ xml_files = <<>>
    /\ outPath = FreshOut
    /\ delete_temps = TRUE
    /\ roots = <<>>
    /\ di = 1
    /\ mpc = "idle"
    /\ merr = NoError

\* The splitter's variables before a split is called.
SplitterIdle ==
    /\ sargs = [op |-> "none", number_q |-> 0, number_f |-> 0,
                maxfilesize |-> 0, nfiles |-> None]
    /\ filesize = 0
    /\ max_n_files = 0
    /\ root = <<>>
    /\ q_list = <<>>
    /\ q_per_file = 0
    /\ n_files = 0
    /\ working_root = <<>>
    /\ qidx = 0
    /\ fidx = 0
    /\ qpos = 0
    /\ chunks = <<>>
    /\ spc = "idle"
    /\ sret = None
    /\ serr = NoError

\* The rows of self.df_gq: row j is processed by the j-th gen_files call,
\* whose tmpfile token is modelled by j and whose artifact
\* tmpfile + "-moodle.xml" is the file at path j of the working directory.
Jobs == 1..MaxInputs

\* The temporary files whose name starts with a job's tmpfile token: the
\* rendered tmpfile + ".tex", the by-products of pdflatex that
\* glob(tmpfile + ".*") matches (".log" stands for .aux, .log, .pdf and
\* .synctex.gz), tmpfile + ".xml", which the cleanup keeps, and the
\* directory "pythontex-files-" + tmpfile.
TokenNames == {".tex", ".log", ".xml", "pythontex-files-"}

\* The temporary files whose name holds no token.
FixedNames == {"comment.cut", "genmq.log", "gq_pythontex.log",
               "gq_post_pythontex.log"}

\* The owner recorded for a file that does not exist.
Absent == 0

TempName(j, n) == [tok |-> j, name |-> n]

FixedName(n) == [tok |-> 0, name |-> n]

TempNames ==
    { TempName(j, n) : j \in Jobs, n \in TokenNames }
        \cup { FixedName(n) : n \in FixedNames }

\* The rewriting's variables while render_file's rewriting is not examined.
RenderIdle ==
    /\ document = <<>>
    /\ document1 = <<>>
    /\ napplied = 0

\* The variables of run() and gen_files while no row is processed.
RunIdle ==
    /\ nrec = 0
    /\ pythontex = FALSE
    /\ logfile = FALSE
    /\ jpc = [j \in Jobs |-> "wait"]
    /\ wd = [f \in TempNames |-> Absent]
    /\ passes = [j \in Jobs |-> <<>>]
    /\ tempxmlfiles = <<>>
    /\ jraised = [j \in Jobs |-> FALSE]

\* The variables of run() while only merge_xml or the splitter runs.
JobsIdle == RunIdle /\ RenderIdle

(***************************************************************************)
(* GenMoodleQuiz.merge_xml                                                 *)
(***************************************************************************)
\* The working directory holding the files cfg at the paths 1..Len(cfg) and
\* the file out0 at the fresh output path.
Directory(cfg, out0) ==
    [p \in Paths |->
        IF p = FreshOut THEN out0
        ELSE IF p <= Len(cfg) THEN Stamp(cfg[p], p)
        ELSE Missing]

\* GenMoodleQuiz.run: merge_xml(Path(self.templatefile).stem, self.tempxmlfiles).
\* compile_files appends tmpfile + "-moodle.xml" for every job, whether or not
\* the compiler left the file; the output is named after the template.
InitNormal ==
    \E n \in 0..MaxInputs :
      \E cfg \in Configs(n, MaxTotalNodes), out0 \in {Missing, OldOutput} :
        /\ mode = "normal"
        /\ fs = Directory(cfg, out0)
        /\ xml_files = [i \in 1..n |-> i]
        /\ outPath = FreshOut

\* cli, merge mode: xml_files = glob.glob("*.xml"), every XML file of the
\* directory, and the output is named by the user: a file of that name that
\* already exists is one of the inputs.
InitMergeMode ==
    \E n \in 0..MaxInputs :
      \E cfg \in Configs(n, MaxTotalNodes), o \in {FreshOut} \cup 1..n :
        /\ \A i \in 1..n : cfg[i].st # "missing"
        /\ mode = "merge"
        /\ fs = Directory(cfg, Missing)
        /\ xml_files = [i \in 1..n |-> i]
        /\ outPath = o

InitMerge ==
    /\ SplitterIdle
    /\ JobsIdle
    /\ xmlfile = Missing
    /\ InitNormal \/ InitMergeMode
    /\ fs0 = fs
    /\ delete_temps \in BOOLEAN
    /\ roots = <<>>
    /\ di = 1
    /\ mpc = "call"
    /\ merr = NoError

\* ET.parse(f): the exception it raises on the file at path p.  A missing
\* file gives FileNotFoundError, which carries the file name; a file that is
\* not well-formed gives xml.etree.ElementTree.ParseError, which carries the
\* expat message, line and column and no file name.
ParseFailure(p) ==
    IF fs[p].st = "missing"
    THEN [kind |-> "FileNotFoundError", path |-> p]
    ELSE [kind |-> "ParseError", path |-> NoPath]

\* roots = [ET.parse(f).getroot() for f in xml_files]: the files are parsed
\* in order and the first one that cannot be parsed ends merge_xml.
MergeParse ==
    /\ mpc = "call"
    /\ LET bad == { i \in 1..Len(xml_files) : fs[xml_files[i]].st # "ok" }
       IN IF bad = {}
          THEN /\ roots' = [i \in 1..Len(xml_files) |-> fs[xml_files[i]].kids]
               /\ mpc' = "parsed"
               /\ merr' = merr
          ELSE LET j == CHOOSE i \in bad : \A k \in bad : i <= k
               IN /\ merr' = ParseFailure(xml_files[j])
                  /\ mpc' = "failed"
                  /\ roots' = roots
    /\ UNCHANGED <<svars, jvars>>
    /\ UNCHANGED <<mode, fs, fs0, xml_files, outPath, delete_temps, di>>

\* Kept without the test of the tag.
Kept_AnyTag(r) ==
    SelectSeq(r, LAMBDA el : el.type # "category")

\* Kept without the test of the type attribute.
Kept_KeepsCategories(r) ==
    SelectSeq(r, LAMBDA el : el.tag = "question")

\* for el in r: if el.tag == "question" and el.attrib["type"] != "category"
Kept(r) ==
    SelectSeq(r, LAMBDA el : el.tag = "question" /\ el.type # "category")

\* for r in roots[1:]: ... base.append(el)
RECURSIVE AppendAll(_, _)
AppendAll(base, rs) ==
    IF rs = <<>> THEN base
    ELSE AppendAll(base \o Kept(Head(rs)), Tail(rs))

\* MergeAssemble with an empty container standing in for a missing roots[0].
MergeAssemble_EmptyBase ==
    /\ mpc = "parsed"
    /\ roots' = IF roots = <<>> THEN << <<>> >>
                ELSE [roots EXCEPT ![1] = AppendAll(roots[1], Tail(roots))]
    /\ mpc' = "assembled"
    /\ UNCHANGED <<svars, jvars>>
    /\ UNCHANGED <<mode, fs, fs0, xml_files, outPath, delete_temps, di, merr>>

\* base = roots[0] and the loop over roots[1:]; roots[0] of an empty list
\* raises IndexError.
MergeAssemble ==
    /\ mpc = "parsed"
    /\ IF roots = <<>>
       THEN /\ merr' = [kind |-> "IndexError", path |-> NoPath]
            /\ mpc' = "failed"
            /\ roots' = roots
       ELSE /\ roots' = [roots EXCEPT ![1] = AppendAll(roots[1], Tail(roots))]
            /\ mpc' = "assembled"
            /\ merr' = merr
    /\ UNCHANGED <<svars, jvars>>
    /\ UNCHANGED <<mode, fs, fs0, xml_files, outPath, delete_temps, di>>

\* base_xml.write(f"{xmlfilename}.xml", ...) succeeds.
MergeWrite ==
    /\ mpc = "assembled"
    /\ fs' = [fs EXCEPT ![outPath] = XmlDoc(roots[1])]
    /\ mpc' = "written"
    /\ UNCHANGED <<svars, jvars>>
    /\ UNCHANGED <<mode, fs0, xml_files, outPath, delete_temps, roots, di, merr>>

\* base_xml.write raises (the path cannot be opened, or the device fails
\* part-way through): the file is untouched, or is left truncated.
MergeWriteFail ==
    /\ mpc = "assembled"
    /\ \/ fs' = fs
       \/ fs' = [fs EXCEPT ![outPath] = Malformed]
    /\ merr' = [kind |-> "OSError", path |-> outPath]
    /\ mpc' = "failed"
    /\ UNCHANGED <<svars, jvars>>
    /\ UNCHANGED <<mode, fs0, xml_files, outPath, delete_temps, roots, di>>

\* MergeRemove with the deletion loop placed before the write.
MergeRemove_BeforeWrite ==
    /\ mpc \in {"assembled", "written"}
    /\ delete_temps
    /\ di <= Len(xml_files)
    /\ fs[xml_files[di]].st # "missing"
    /\ fs' = [fs EXCEPT ![xml_files[di]] = Missing]
    /\ di' = di + 1
    /\ UNCHANGED <<svars, jvars>>
    /\ UNCHANGED <<mode, fs0, xml_files, outPath, delete_temps, roots, mpc, merr>>

\* if self.delete_temps: for f in xml_files: os.remove(f)   (one file)
MergeRemove ==
    /\ mpc = "written"
    /\ delete_temps
    /\ di <= Len(xml_files)
    /\ IF fs[xml_files[di]].st = "missing"
       THEN /\ merr' = [kind |-> "FileNotFoundError", path |-> xml_files[di]]
            /\ mpc' = "failed"
            /\ UNCHANGED <<fs, di>>
       ELSE /\ fs' = [fs EXCEPT ![xml_files[di]] = Missing]
            /\ di' = di + 1
            /\ UNCHANGED <<mpc, merr>>
    /\ UNCHANGED <<svars, jvars>>
    /\ UNCHANGED <<mode, fs0, xml_files, outPath, delete_temps, roots>>

\* merge_xml returns.
MergeReturn ==
    /\ mpc = "written"
    /\ ~delete_temps \/ di > Len(xml_files)
    /\ mpc' = "done"
    /\ UNCHANGED <<svars, jvars>>
    /\ UNCHANGED <<mode, fs, fs0, xml_files, outPath, delete_temps, roots, di, merr>>

NextMerge ==
    \/ MergeParse
    \/ MergeAssemble
    \/ MergeWrite
    \/ MergeWriteFail
    \/ MergeRemove
    \/ MergeReturn

SpecMerge == InitMerge /\ [][NextMerge]_vars

(***************************************************************************)
(* Splitter                                                                *)
(***************************************************************************)
\* The path of the splitter's source document.
SrcPath == 1

MiB == 1048576

\* A source document of at most n root children, or a file that is no XML.
SourceFiles(n) ==
    { Stamp(XmlDoc(s), SrcPath) : s \in ShapesUpTo(n) } \cup {Malformed}

\* st_size of a source file: every whole number of MiB up to MaxSizeMiB, and
\* one byte more or less.
FileSizes ==
    { k * MiB + d : k \in 1..MaxSizeMiB, d \in {0 - 1, 0, 1} }

InitSplit ==
    /\ MergerIdle
    /\ SplitterIdle
    /\ JobsIdle
    /\ xmlfile \in SourceFiles(MaxDocNodes)

InitSize ==
    /\ MergerIdle
    /\ SplitterIdle
    /\ JobsIdle
    /\ xmlfile \in SourceFiles(MaxSizeDocNodes)

\* read_xml_file's test of a child q of the root: it is moved to q_list.
IsMoved(q) == q.tag = "question" /\ q.type # "category"

\* read_xml_file: q_list, the questions that are no category, in document
\* order ...
ReadQList(kids) == SelectSeq(kids, IsMoved)

\* root with every question removed, category markers too.
ReadRoot_NoQuestions(kids) == SelectSeq(kids, LAMBDA q : q.tag # "question")

\* ... and root, with those questions removed.
ReadRoot(kids) == SelectSeq(kids, LAMBDA q : ~IsMoved(q))

\* math.ceil(a / b) and math.floor(a / b) of ints a >= 0, b > 0.
Ceil(a, b) == (a + b - 1) \div b

Floor(a, b) == a \div b

Min(a, b) == IF a <= b THEN a ELSE b

\* q_per_file dividing by the clamped n_files.
SizeQPerFile_Clamped(total, m, n) == Floor(total, n)

\* split_by_size: q_per_file = math.floor(total_no_questions / max_n_files),
\* where m is max_n_files and n is n_files.
SizeQPerFile(total, m, n) == Floor(total, m)

\* The locals of split_q_per_file(root, q_list, q, n) at its for loop.
EnterSplitQPerFile(kids, q, n) ==
    /\ root' = ReadRoot(kids)
    /\ q_list' = ReadQList(kids)
    /\ q_per_file' = q
    /\ n_files' = n
    /\ working_root' = ReadRoot(kids)
    /\ qidx' = 0
    /\ fidx' = 1
    /\ qpos' = 1
    /\ spc' = "loop"

\* ET.parse(self.xmlfile) raises ParseError in read_xml_file.
SplitParseFails ==
    /\ spc' = "failed"
    /\ serr' = [kind |-> "ParseError", path |-> NoPath]
    /\ UNCHANGED <<root, q_list, q_per_file, n_files, working_root, qidx,
                   fidx, qpos>>

\* split_by_number(number_q, number_f) up to the for loop of
\* split_q_per_file.
SplitByNumber ==
    /\ spc = "idle"
    /\ \E number_q \in 0..MaxQPerFile, number_f \in 0..MaxNFiles :
         /\ sargs' = [op |-> "number", number_q |-> number_q,
                      number_f |-> number_f, maxfilesize |-> 0,
                      nfiles |-> None]
         /\ IF xmlfile.st # "ok"
            THEN SplitParseFails
            ELSE /\ EnterSplitQPerFile(xmlfile.kids, number_q, number_f)
                 /\ serr' = serr
    /\ UNCHANGED <<xmlfile, filesize, max_n_files, chunks, sret>>
    /\ UNCHANGED <<mvars, jvars>>

\* split_by_size(maxfilesize, nfiles) up to the for loop of split_q_per_file.
SplitBySize ==
    /\ spc = "idle"
    /\ \E mfs \in 0..MaxBudgetMB, size \in FileSizes,
          nfiles \in {None} \cup { Some(k) : k \in 0..MaxNFiles } :
         /\ sargs' = [op |-> "size", number_q |-> 0, number_f |-> 0,
                      maxfilesize |-> mfs, nfiles |-> nfiles]
         /\ IF xmlfile.st # "ok"
            THEN /\ SplitParseFails
                 /\ UNCHANGED <<filesize, max_n_files>>
            ELSE /\ filesize' = size
                 /\ IF mfs * MiB = 0
                    THEN /\ spc' = "failed"
                         /\ serr' = [kind |-> "ZeroDivisionError",
                                     path |-> NoPath]
                         /\ root' = ReadRoot(xmlfile.kids)
                         /\ q_list' = ReadQList(xmlfile.kids)
                         /\ UNCHANGED <<max_n_files, q_per_file, n_files,
                                        working_root, qidx, fidx, qpos>>
                    ELSE LET m == Ceil(size, mfs * MiB)
                             n == IF nfiles.some /\ nfiles.val > 0
                                  THEN Min(m, nfiles.val)
                                  ELSE m
                             total_no_questions == Len(ReadQList(xmlfile.kids))
                         IN /\ max_n_files' = m
                            /\ EnterSplitQPerFile(xmlfile.kids,
                                   SizeQPerFile(total_no_questions, m, n), n)
                            /\ serr' = serr
    /\ UNCHANGED <<xmlfile, chunks, sret>>
    /\ UNCHANGED <<mvars, jvars>>

\* write_xml_file(tree, f"{self.xmlfile.stem}-{fidx}.xml")
WriteChunk(tree, idx) == Append(chunks, [fidx |-> idx, kids |-> tree])

\* SplitLoopStep without working_root = copy.deepcopy(root) after a write.
SplitLoopStep_NoReset ==
    /\ spc = "loop"
    /\ qpos <= Len(q_list)
    /\ LET appended == Append(working_root, q_list[qpos])
           full == qidx + 1 >= q_per_file
           fidx1 == IF full THEN fidx + 1 ELSE fidx
       IN /\ chunks' = IF full THEN WriteChunk(appended, fidx) ELSE chunks
          /\ working_root' = appended
          /\ qidx' = IF full THEN 0 ELSE qidx + 1
          /\ fidx' = fidx1
          /\ IF fidx1 > n_files
             THEN /\ spc' = "after"
                  /\ qpos' = qpos
             ELSE /\ spc' = "loop"
                  /\ qpos' = qpos + 1
    /\ UNCHANGED <<xmlfile, sargs, filesize, max_n_files, root, q_list,
                   q_per_file, n_files, sret, serr>>
    /\ UNCHANGED <<mvars, jvars>>

\* One iteration of `for q in q_list` in split_q_per_file.
SplitLoopStep ==
    /\ spc = "loop"
    /\ qpos <= Len(q_list)
    /\ LET appended == Append(working_root, q_list[qpos])
           full == qidx + 1 >= q_per_file
           fidx1 == IF full THEN fidx + 1 ELSE fidx
       IN /\ IF full
             THEN /\ chunks' = WriteChunk(appended, fidx)
                  /\ working_root' = root
                  /\ qidx' = 0
             ELSE /\ chunks' = chunks
                  /\ working_root' = appended
                  /\ qidx' = qidx + 1
          /\ fidx' = fidx1
          /\ IF fidx1 > n_files
             THEN /\ spc' = "after"
                  /\ qpos' = qpos
             ELSE /\ spc' = "loop"
                  /\ qpos' = qpos + 1
    /\ UNCHANGED <<xmlfile, sargs, filesize, max_n_files, root, q_list,
                   q_per_file, n_files, sret, serr>>
    /\ UNCHANGED <<mvars, jvars>>

\* The for loop has run through q_list.
SplitLoopEnd ==
    /\ spc = "loop"
    /\ qpos > Len(q_list)
    /\ spc' = "after"
    /\ UNCHANGED <<xmlfile, sargs, filesize, max_n_files, root, q_list,
                   q_per_file, n_files, working_root, qidx, fidx, qpos,
                   chunks, sret, serr>>
    /\ UNCHANGED <<mvars, jvars>>

\* if qidx > 0 and fidx <= n_files: write_xml_file(...); then
\* split_q_per_file and its caller return (None: neither has a return
\* statement).
SplitFlush ==
    /\ spc = "after"
    /\ chunks' = IF qidx > 0 /\ fidx <= n_files
                 THEN WriteChunk(working_root, fidx)
                 ELSE chunks
    /\ sret' = None
    /\ spc' = "done"
    /\ UNCHANGED <<xmlfile, sargs, filesize, max_n_files, root, q_list,
                   q_per_file, n_files, working_root, qidx, fidx, qpos, serr>>
    /\ UNCHANGED <<mvars, jvars>>

NextSplit ==
    \/ SplitByNumber
    \/ SplitLoopStep
    \/ SplitLoopEnd
    \/ SplitFlush

NextSize ==
    \/ SplitBySize
    \/ SplitLoopStep
    \/ SplitLoopEnd
    \/ SplitFlush

SpecSplit == InitSplit /\ [][NextSplit]_vars

SpecSize == InitSize /\ [][NextSize]_vars

(***************************************************************************)
(* GenMoodleQuiz.run, gen_files, compile_files                             *)
(***************************************************************************)
\* The artifact that the compilation of job j's document leaves at
\* tmpfile + "-moodle.xml": a category marker and a question.
ArtifactDoc(j) ==
    Stamp(XmlDoc(<<[tag |-> "question", type |-> "category"],
                   [tag |-> "question", type |-> "multichoice"]>>), j)

\* The exit status of a pass: subprocess.run is called without check=True,
\* so the status is stored in `output` and never read.
ExitCodes == {0, 1}

\* run() before its first row: nothing is compiled, merge_xml is not called.
InitJobs ==
    /\ SplitterIdle
    /\ xmlfile = Missing
    /\ RenderIdle
    /\ mode = "normal"
    /\ fs = [p \in Paths |-> Missing]
    /\ fs0 = fs
    /\ xml_files = <<>>
    /\ outPath = FreshOut
    /\ delete_temps \in BOOLEAN
    /\ roots = <<>>
    /\ di = 1
    /\ mpc = "idle"
    /\ merr = NoError
    /\ pythontex \in BOOLEAN
    /\ logfile \in BOOLEAN
    /\ jpc = [j \in Jobs |-> "wait"]
    /\ wd = [f \in TempNames |-> Absent]
    /\ passes = [j \in Jobs |-> <<>>]
    /\ tempxmlfiles = <<>>
    /\ jraised = [j \in Jobs |-> FALSE]

\* run(): the rows are processed one after the other by progress_apply.
InitRun ==
    /\ InitJobs
    /\ nrec \in 0..MaxInputs

\* What a step of gen_files leaves alone.
JobFrame ==
    UNCHANGED <<svars, mode, fs0, xml_files, outPath, delete_temps, roots,
                di, mpc, merr, nrec, pythontex, logfile, document,
                document1, napplied>>

\* gen_files: render_file(values, keys, self.jinja_template, tmpfile) writes
\* tmpfile + ".tex".  The call stands before the try statement.
JobRender(j) ==
    /\ j \in 1..nrec
    /\ jpc[j] = "wait"
    /\ wd' = [wd EXCEPT ![TempName(j, ".tex")] = j]
    /\ jpc' = [jpc EXCEPT ![j] = "pass1"]
    /\ JobFrame
    /\ UNCHANGED <<fs, passes, tempxmlfiles, jraised>>

\* render_file raises: template.render or open() does, and no file is
\* written, or outfile.write does, and the file opened for writing stays.
\* No handler and no finally clause encloses the call, so gen_files ends.
JobRenderRaises(j) ==
    /\ j \in 1..nrec
    /\ jpc[j] = "wait"
    /\ \/ wd' = wd
       \/ wd' = [wd EXCEPT ![TempName(j, ".tex")] = j]
    /\ jpc' = [jpc EXCEPT ![j] = "raised"]
    /\ JobFrame
    /\ UNCHANGED <<fs, passes, tempxmlfiles, jraised>>

\* if self.logfile: with open(name, "wb") as outfile: outfile.write(...)
LogWrite(w, j, name) ==
    IF logfile THEN [w EXCEPT ![FixedName(name)] = j] ELSE w

\* subprocess.run(cmd_pdflatex, ...) and the log write that follows it: the
\* compiler leaves its by-products, leaves the artifact or not, and exits
\* with some status.
Pdflatex(j, log, next) ==
    /\ j \in 1..nrec
    /\ \E rc \in ExitCodes, deposits \in BOOLEAN :
        /\ passes' = [passes EXCEPT
                        ![j] = Append(@, [cmd |-> "pdflatex", rc |-> rc])]
        /\ fs' = IF deposits THEN [fs EXCEPT ![j] = ArtifactDoc(j)] ELSE fs
    /\ wd' = LogWrite([wd EXCEPT ![TempName(j, ".log")] = j], j, log)
    /\ jpc' = [jpc EXCEPT ![j] = next]
    /\ JobFrame
    /\ UNCHANGED <<tempxmlfiles, jraised>>

\* JobPass1 when a pass that exits with a status other than 0 ended the
\* compilation.
JobPass1_StopsOnFailure(j) ==
    /\ j \in 1..nrec
    /\ jpc[j] = "pass1"
    /\ \E rc \in ExitCodes, deposits \in BOOLEAN :
        /\ passes' = [passes EXCEPT
                        ![j] = Append(@, [cmd |-> "pdflatex", rc |-> rc])]
        /\ fs' = IF deposits THEN [fs EXCEPT ![j] = ArtifactDoc(j)] ELSE fs
        /\ jpc' = [jpc EXCEPT ![j] = IF pythontex /\ rc = 0 THEN "aux"
                                     ELSE "append"]
    /\ wd' = LogWrite([wd EXCEPT ![TempName(j, ".log")] = j], j, "genmq.log")
    /\ JobFrame
    /\ UNCHANGED <<tempxmlfiles, jraised>>

\* compile_files: the first subprocess.run(cmd_pdflatex, ...), logged to
\* genmq.log.
JobPass1(j) ==
    /\ jpc[j] = "pass1"
    /\ Pdflatex(j, "genmq.log", IF pythontex THEN "aux" ELSE "append")

\* if self.pythontex: subprocess.run(cmd_pythontex, ...), logged to
\* gq_pythontex.log; pythontex leaves the directory
\* "pythontex-files-" + tmpfile and the scratch file comment.cut.
JobAux(j) ==
    /\ j \in 1..nrec
    /\ jpc[j] = "aux"
    /\ \E rc \in ExitCodes :
        passes' = [passes EXCEPT
                     ![j] = Append(@, [cmd |-> "pythontex", rc |-> rc])]
    /\ wd' = LogWrite([wd EXCEPT ![TempName(j, "pythontex-files-")] = j,
                                 ![FixedName("comment.cut")] = j],
                      j, "gq_pythontex.log")
    /\ jpc' = [jpc EXCEPT ![j] = "pass2"]
    /\ JobFrame
    /\ UNCHANGED <<fs, tempxmlfiles, jraised>>

\* if self.pythontex: the second subprocess.run(cmd_pdflatex, ...), logged
\* to gq_post_pythontex.log.
JobPass2(j) ==
    /\ jpc[j] = "pass2"
    /\ Pdflatex(j, "gq_post_pythontex.log", "append")

\* self.tempxmlfiles.append(tmpfile + "-moodle.xml"), and compile_files
\* returns: its locals are gone.
JobAppend(j) ==
    /\ j \in 1..nrec
    /\ jpc[j] = "append"
    /\ tempxmlfiles' = Append(tempxmlfiles, j)
    /\ passes' = [passes EXCEPT ![j] = <<>>]
    /\ jpc' = [jpc EXCEPT ![j] = "cleanup"]
    /\ JobFrame
    /\ UNCHANGED <<fs, wd, jraised>>

\* compile_files raises (subprocess.run cannot start the shell, or a log
\* file cannot be opened): control passes to the finally clause.
JobCompileRaises(j) ==
    /\ j \in 1..nrec
    /\ jpc[j] \in {"pass1", "aux", "pass2"}
    /\ jraised' = [jraised EXCEPT ![j] = TRUE]
    /\ passes' = [passes EXCEPT ![j] = <<>>]
    /\ jpc' = [jpc EXCEPT ![j] = "cleanup"]
    /\ JobFrame
    /\ UNCHANGED <<fs, wd, tempxmlfiles>>

\* glob.glob(tmpfile + ".*"): the names made of the token and a suffix that
\* starts with a dot.  tmpfile + "-moodle.xml" is none of them.
GlobMatches(j) == { TempName(j, n) : n \in {".tex", ".log", ".xml"} }

\* The finally clause with self.delete_temps set: every file the glob
\* matches but tmpfile + ".xml", then comment.cut, then the directory
\* "pythontex-files-" + tmpfile.
Cleaned(w, j) ==
    [f \in TempNames |->
        IF \/ f \in GlobMatches(j) /\ f # TempName(j, ".xml")
           \/ f = FixedName("comment.cut")
           \/ f = TempName(j, "pythontex-files-")
        THEN Absent
        ELSE w[f]]

\* finally: if self.delete_temps: ...   and gen_files returns, or the
\* pending exception is raised again.
JobCleanup(j) ==
    /\ j \in 1..nrec
    /\ jpc[j] = "cleanup"
    /\ wd' = IF delete_temps THEN Cleaned(wd, j) ELSE wd
    /\ jpc' = [jpc EXCEPT ![j] = IF jraised[j] THEN "raised" ELSE "done"]
    /\ JobFrame
    /\ UNCHANGED <<fs, passes, tempxmlfiles, jraised>>

\* progress_apply calls gen_files for row j when the calls for the rows
\* before it have returned; an exception raised by one of them ends run().
Turn(j) == \A k \in 1..(j - 1) : jpc[k] = "done"

RowRender(j) == Turn(j) /\ JobRender(j)

RowRenderRaises(j) == Turn(j) /\ JobRenderRaises(j)

\* run(): self.merge_xml(Path(self.templatefile).stem, self.tempxmlfiles),
\* reached when every gen_files call has returned.
RunMerge ==
    /\ mpc = "idle"
    /\ \A j \in 1..nrec : jpc[j] = "done"
    /\ xml_files' = tempxmlfiles
    /\ fs0' = fs
    /\ mpc' = "call"
    /\ UNCHANGED <<svars, jvars>>
    /\ UNCHANGED <<mode, fs, outPath, delete_temps, roots, di, merr>>

NextRun ==
    \/ \E j \in Jobs :
        \/ RowRender(j)
        \/ RowRenderRaises(j)
        \/ JobPass1(j)
        \/ JobAux(j)
        \/ JobPass2(j)
        \/ JobAppend(j)
        \/ JobCompileRaises(j)
        \/ JobCleanup(j)
    \/ RunMerge
    \/ MergeParse
    \/ MergeAssemble
    \/ MergeWrite
    \/ MergeWriteFail
    \/ MergeRemove
    \/ MergeReturn

SpecRun == InitRun /\ [][NextRun]_vars

(***************************************************************************)
(* Two gen_files calls interleaved step by step.                           *)
(***************************************************************************)
InitPar ==
    /\ InitJobs
    /\ nrec = 2

NextPar ==
    \E j \in Jobs :
        \/ JobRender(j)
        \/ JobRenderRaises(j)
        \/ JobPass1(j)
        \/ JobAux(j)
        \/ JobPass2(j)
        \/ JobAppend(j)
        \/ JobCompileRaises(j)
        \/ JobCleanup(j)

SpecPar == InitPar /\ [][NextPar]_vars

(***************************************************************************)
(* GenMoodleQuiz.render_file: the removal of moodle.sty's draft option.    *)
(*                                                                         *)
(* The rendered document is a sequence of lines and a line a sequence of   *)
(* tokens: the strings the pattern and the replaced text are made of, the  *)
(* characters that can stand between them in an option list, a space, and  *)
(* "x" for any other run of non-space characters.                          *)
(***************************************************************************)
MaxOptionTokens == 5

Usepackage == "\\usepackage"

Draft == "draft"

Moodle == "{moodle}"

OptionTokens == {"[", "]", ",", Draft, " ", "x"}

\* The line \usepackage ... {moodle} with the tokens of body in between.
PackageLine(body) == <<Usepackage>> \o body \o <<Moodle>>

\* A line of the document that loads no package.
TextLine == <<"x">>

\* What template.render returns: the package line l alone, or below a
\* line of text.
RenderedDocs(l) == { <<l>>, <<TextLine, l>> }

InitRender ==
    /\ SplitterIdle
    /\ xmlfile = Missing
    /\ RunIdle
    /\ mode = "normal"
    /\ fs = [p \in Paths |-> Missing]
    /\ fs0 = fs
    /\ xml_files = <<>>
    /\ outPath = FreshOut
    /\ delete_temps = TRUE
    /\ roots = <<>>
    /\ di = 1
    /\ mpc = "idle"
    /\ merr = NoError
    /\ \E k \in 0..MaxOptionTokens :
        \E body \in [1..k -> OptionTokens] :
            document \in RenderedDocs(PackageLine(body))
    /\ document1 = document
    /\ napplied = 0

\* \S+ : the tokens from..to of the line are at least one, and none is a
\* space.
NonSpaceRun(line, from, to) ==
    /\ from <= to
    /\ \A i \in from..to : line[i] # " "

\* The positions of "draft" at which
\* (^\\usepackage\S+)draft(\S+{moodle}$) matches the line.
DraftMatches(line) ==
    IF Len(line) >= 2 /\ line[1] = Usepackage /\ line[Len(line)] = Moodle
    THEN { k \in 2..(Len(line) - 1) :
             /\ line[k] = Draft
             /\ NonSpaceRun(line, 2, k - 1)
             /\ NonSpaceRun(line, k + 1, Len(line) - 1) }
    ELSE {}

\* p.sub(r"\1\2", ...) on one line: the first \S+ is greedy, so the match
\* is the one whose "draft" stands last, and that token is dropped.
StripDraft(line) ==
    IF DraftMatches(line) = {} THEN line
    ELSE LET k == CHOOSE m \in DraftMatches(line) :
                     \A o \in DraftMatches(line) : o <= m
         IN  SubSeq(line, 1, k - 1) \o SubSeq(line, k + 1, Len(line))

\* str.replace(r"\usepackage[]{moodle}", r"\usepackage{moodle}") on one
\* line: every occurrence, from the left.
RECURSIVE ReplaceEmptyOptions(_)
ReplaceEmptyOptions(line) ==
    IF Len(line) < 4 THEN line
    ELSE IF SubSeq(line, 1, 4) = <<Usepackage, "[", "]", Moodle>>
         THEN <<Usepackage, Moodle>>
                  \o ReplaceEmptyOptions(SubSeq(line, 5, Len(line)))
         ELSE <<Head(line)>> \o ReplaceEmptyOptions(Tail(line))

\* Lines 262-265 of render_file.  With re.MULTILINE the pattern is tried at
\* the start of every line, and neither the pattern nor the replaced text
\* holds a newline.
DraftTransform(doc) ==
    [i \in 1..Len(doc) |-> ReplaceEmptyOptions(StripDraft(doc[i]))]

\* The rewriting is applied to the document, and then once more to its own
\* result.
ApplyTransform ==
    /\ napplied < 2
    /\ document' = DraftTransform(document)
    /\ document1' = IF napplied = 0 THEN DraftTransform(document)
                    ELSE document1
    /\ napplied' = napplied + 1
    /\ UNCHANGED <<mvars, svars>>
    /\ UNCHANGED <<nrec, pythontex, logfile, jpc, wd, passes, tempxmlfiles,
                   jraised>>

NextRender == ApplyTransform

SpecRender == InitRender /\ [][NextRender]_vars

(***************************************************************************)
(* Properties of merge_xml.                                                *)
(***************************************************************************)
Inputs == { xml_files[i] : i \in 1..Len(xml_files) }

\* The position of path p in xml_files.
IdxOf(p) == CHOOSE i \in 1..Len(xml_files) : xml_files[i] = p

\* Node a comes before node b in input-sequence order, then document order.
Before(a, b) ==
    \/ IdxOf(a.src) < IdxOf(b.src)
    \/ IdxOf(a.src) = IdxOf(b.src) /\ a.pos < b.pos

IsItemKind(el) == el.tag = "question"

IsCategory(el) == el.tag = "question" /\ el.type = "category"

\* The nodes of the artifact at position i of xml_files, as merge_xml found it.
Artifact(i) == fs0[xml_files[i]].kids

NodesOf(kids) == { kids[k] : k \in 1..Len(kids) }

\* The number of elements of the sequence kids that satisfy Test.
CountIn(kids, Test(_)) == Cardinality({ k \in 1..Len(kids) : Test(kids[k]) })

\* The number of nodes satisfying Test in the artifacts from..Len(xml_files).
CountFrom(from, Test(_)) ==
    Cardinality({ ik \in (from..Len(xml_files)) \X (1..MaxTotalNodes) :
                    /\ ik[2] <= Len(Artifact(ik[1]))
                    /\ Test(Artifact(ik[1])[ik[2]]) })

\* The output document stands as merge_xml wrote it.
OutputWritten == mpc \in {"written", "done"} /\ fs[outPath].st # "missing"

\* C1: the output document's root children are all children of the first
\* artifact's root in their order, followed by exactly the question nodes
\* that are no category marker of the 2nd, 3rd, ... artifacts, in input
\* order, then document order; nothing else of a later artifact appears.
C1_MergeOutput ==
    /\ (mpc = "written" /\ di = 1) => fs[outPath].st = "ok"
    /\ OutputWritten =>
         LET out == fs[outPath].kids
             n0 == Len(Artifact(1))
             later == { out[k] : k \in (n0 + 1)..Len(out) }
         IN /\ fs[outPath].st = "ok"
            /\ Len(out) >= n0
            /\ SubSeq(out, 1, n0) = Artifact(1)
            /\ \A el \in later :
                 /\ IdxOf(el.src) >= 2
                 /\ IsItemKind(el) /\ ~IsCategory(el)
            /\ \A i \in 2..Len(xml_files) : \A el \in NodesOf(Artifact(i)) :
                 (IsItemKind(el) /\ ~IsCategory(el)) => el \in later
            /\ \A k, l \in (n0 + 1)..Len(out) :
                 k < l => Before(out[k], out[l])

\* C1 witness: an output written from two or more artifacts, a later one
\* of which holds both a category marker and a data item.
C1_Witness ==
    /\ mpc = "written" /\ di = 1
    /\ Len(xml_files) >= 2
    /\ Len(Artifact(1)) >= 1
    /\ \E i \in 2..Len(xml_files) :
         /\ \E el \in NodesOf(Artifact(i)) : IsCategory(el)
         /\ \E el \in NodesOf(Artifact(i)) : IsItemKind(el) /\ ~IsCategory(el)

\* C2 as stated: the number of question nodes of the output is the sum of the
\* artifacts' numbers of question nodes minus (number of artifacts - 1);
\* stated of artifacts that each hold a category marker.
C2_CountMinusInputs ==
    (/\ mpc = "written" /\ di = 1
     /\ \A i \in 1..Len(xml_files) : CountIn(Artifact(i), IsCategory) >= 1) =>
        CountIn(fs[outPath].kids, IsItemKind)
          = CountFrom(1, IsItemKind) - (Len(xml_files) - 1)

\* C2 amended: the number of question nodes of the output is the sum of the
\* artifacts' numbers of question nodes minus the number of category markers
\* of the artifacts after the first; that is (number of artifacts - 1) when
\* each artifact after the first holds exactly one category marker.
C2_CountMinusLaterCategories ==
    (mpc = "written" /\ di = 1) =>
        /\ CountIn(fs[outPath].kids, IsItemKind)
             = CountFrom(1, IsItemKind) - CountFrom(2, IsCategory)
        /\ (\A i \in 2..Len(xml_files) : CountIn(Artifact(i), IsCategory) = 1)
             => CountIn(fs[outPath].kids, IsItemKind)
                  = CountFrom(1, IsItemKind) - (Len(xml_files) - 1)

\* C2 witness: three artifacts, each with exactly one category marker, merged.
C2_Witness ==
    /\ mpc = "written" /\ di = 1
    /\ Len(xml_files) = 3
    /\ \A i \in 1..3 : CountIn(Artifact(i), IsCategory) = 1

InputRemoved(p) == fs[p].st # "missing" /\ fs'[p].st = "missing"

\* C4: an input is removed only by the deletion loop, after the write has
\* succeeded and when retention is not requested; after a failed write every
\* input exists; with retention no input is ever removed; without it all
\* inputs are gone when merge_xml returns.
C4_DeleteOnlyAfterWrite ==
    /\ [][(\E p \in Inputs : InputRemoved(p))
            => (mpc = "written" /\ delete_temps)]_vars
    /\ []((mpc = "failed" /\ merr.kind = "OSError")
            => \A p \in Inputs : fs[p].st # "missing")
    /\ [](~delete_temps
            => \A p \in Inputs : fs0[p].st # "missing" => fs[p].st # "missing")
    /\ []((mpc = "done" /\ delete_temps)
            => \A p \in Inputs : fs[p].st = "missing")

\* C4 witness: the write succeeded and every one of several inputs was then
\* deleted.
C4_Witness ==
    /\ mpc = "done" /\ delete_temps
    /\ Len(xml_files) >= 2
    /\ \A p \in Inputs : fs0[p].st = "ok" /\ fs[p].st = "missing"

\* C5: when an input is malformed (and every input exists), merge_xml fails
\* with a ParseError naming the first malformed path, having written nothing
\* and deleted nothing.
C5_ParseErrorNamesPath ==
    LET bad == { i \in 1..Len(xml_files) : fs0[xml_files[i]].st = "malformed" }
    IN (/\ mpc = "failed"
        /\ bad # {}
        /\ \A i \in 1..Len(xml_files) : fs0[xml_files[i]].st # "missing")
       => /\ merr.kind = "ParseError"
          /\ merr.path = xml_files[CHOOSE i \in bad : \A k \in bad : i <= k]
          /\ fs = fs0

(***************************************************************************)
(* Properties of the splitter.                                             *)
(***************************************************************************)
IsDataItem(el) == IsItemKind(el) /\ ~IsCategory(el)

\* The data items (question nodes that are no category marker) among kids.
DataItems(kids) == SelectSeq(kids, IsDataItem)

\* The source document's data items, in document order.
SrcItems == DataItems(xmlfile.kids)

\* The data items of the chunks cs, concatenated in the order of cs.
RECURSIVE ConcatItems(_)
ConcatItems(cs) ==
    IF cs = <<>> THEN <<>>
    ELSE DataItems(Head(cs).kids) \o ConcatItems(Tail(cs))

\* The number of data items of the source that are in no chunk.
Truncated == Len(SrcItems) - Len(ConcatItems(chunks))

CountModeDone == spc = "done" /\ sargs.op = "number"

\* The chunks are indexed 1, 2, ... in the order written.
ChunksIndexed == \A k \in 1..Len(chunks) : chunks[k].fidx = k

\* Every chunk but the last holds q data items, the last from 1 to q.
ChunksFilled(q) ==
    \A k \in 1..Len(chunks) :
        LET n == Len(DataItems(chunks[k].kids))
        IN IF k < Len(chunks) THEN n = q ELSE n >= 1 /\ n <= q

\* C6: count mode with itemsPerFile >= 1 and maxFiles >= 0 writes exactly
\* min(ceil(totalItems / itemsPerFile), maxFiles) chunks, indexed 1..n, each
\* but the last holding itemsPerFile data items.
C6_ChunkCount ==
    (CountModeDone /\ q_per_file >= 1 /\ n_files >= 0) =>
        /\ Len(chunks) = Min(Ceil(Len(SrcItems), q_per_file), n_files)
        /\ ChunksIndexed
        /\ ChunksFilled(q_per_file)

\* C6, for maxFiles >= 1 only (the part of the claim the code meets).
C6_ChunkCountPositiveCap ==
    (CountModeDone /\ q_per_file >= 1 /\ n_files >= 1) =>
        /\ Len(chunks) = Min(Ceil(Len(SrcItems), q_per_file), n_files)
        /\ ChunksIndexed
        /\ ChunksFilled(q_per_file)

\* C7: when maxFiles >= ceil(totalItems / itemsPerFile), the data items of
\* chunk 1, chunk 2, ... concatenated are exactly the source's data items,
\* in order.
C7_RoundTrip ==
    (/\ CountModeDone
     /\ q_per_file >= 1
     /\ n_files >= Ceil(Len(SrcItems), q_per_file)) =>
        /\ ChunksIndexed
        /\ ConcatItems(chunks) = SrcItems

\* C7 witness: a source with a category marker split into two or more
\* chunks, the last one partly filled.
C7_Witness ==
    /\ CountModeDone
    /\ q_per_file >= 2
    /\ n_files >= Ceil(Len(SrcItems), q_per_file)
    /\ Len(chunks) >= 2
    /\ Len(DataItems(chunks[Len(chunks)].kids)) < q_per_file
    /\ \E el \in NodesOf(xmlfile.kids) : IsCategory(el)

\* C8: when maxFiles (>= 1) leaves data items undistributed, the split
\* operation returns their number.
C8_TruncationReturned ==
    (CountModeDone /\ q_per_file >= 1 /\ n_files >= 1 /\ Truncated > 0) =>
        sret = Some(Truncated)

\* C9: split-by-count of a well-formed document with itemsPerFile = 0 (and
\* maxFiles >= 1) fails with InvalidArgumentError and writes no chunk.
C9_ZeroItemsPerFileRejected ==
    (/\ sargs.op = "number"
     /\ sargs.number_q = 0
     /\ sargs.number_f >= 1
     /\ xmlfile.st = "ok") =>
        /\ chunks = <<>>
        /\ spc # "done"
        /\ spc = "failed" => serr.kind = "InvalidArgumentError"

SizeModeEntered == sargs.op = "size" /\ spc \in {"loop", "after", "done"}

\* m is ceil(a / b): the least m with m * b >= a.
IsCeil(m, a, b) == m * b >= a /\ (m - 1) * b < a

\* q is floor(a / b): the greatest q with q * b <= a.
IsFloor(q, a, b) == q * b <= a /\ (q + 1) * b > a

\* The file cap the caller supplied, when it is positive.
HasCap == sargs.nfiles.some /\ sargs.nfiles.val > 0

\* C10 as stated: size mode passes on the required chunk count
\* ceil(totalSize / maxBytesPerFile), clamped to the cap when one (a positive
\* one) is supplied, as the file limit, and itemsPerFile =
\* floor(totalItems / that clamped count).
C10_QPerFileFromClampedCount ==
    (SizeModeEntered /\ (sargs.nfiles.some => sargs.nfiles.val > 0)) =>
        /\ IsCeil(max_n_files, filesize, sargs.maxfilesize * MiB)
        /\ n_files = IF HasCap THEN Min(max_n_files, sargs.nfiles.val)
                     ELSE max_n_files
        /\ IsFloor(q_per_file, Len(SrcItems), n_files)

\* C10 amended: the file limit is the required chunk count clamped to the
\* cap when a positive cap is supplied (a cap of 0 counts as none), and
\* itemsPerFile = floor(totalItems / required chunk count), the count before
\* clamping.
C10_QPerFileFromRequiredCount ==
    SizeModeEntered =>
        /\ IsCeil(max_n_files, filesize, sargs.maxfilesize * MiB)
        /\ n_files = IF HasCap THEN Min(max_n_files, sargs.nfiles.val)
                     ELSE max_n_files
        /\ IsFloor(q_per_file, Len(SrcItems), max_n_files)

\* C10 witness: a positive cap below the required chunk count, where the two
\* quotients differ.
C10_Witness ==
    /\ SizeModeEntered
    /\ HasCap
    /\ sargs.nfiles.val < max_n_files
    /\ Len(SrcItems) >= 2
    /\ ~IsFloor(q_per_file, Len(SrcItems), n_files)

SplitEntered == spc \in {"loop", "after", "done"}

\* C17 as stated: the template cloned into every chunk holds no question
\* node of the source, category markers included, so the question nodes of
\* a chunk are exactly the data items distributed to it.
C17_TemplateHoldsNoQuestion ==
    SplitEntered =>
        /\ \A el \in NodesOf(root) : ~IsItemKind(el)
        /\ \A k \in 1..Len(chunks) :
             SelectSeq(chunks[k].kids, IsItemKind) = DataItems(chunks[k].kids)

\* C17 amended: the template holds the source root's children that are no
\* data item, that is its non-question children and its category markers, in
\* document order; every chunk is the template followed by the data items
\* distributed to it, so the question nodes of a chunk are the source's
\* category markers and those data items.
C17_TemplateKeepsCategories ==
    SplitEntered =>
        /\ root = SelectSeq(xmlfile.kids, LAMBDA el : ~IsDataItem(el))
        /\ \A k \in 1..Len(chunks) :
             /\ chunks[k].kids = root \o DataItems(chunks[k].kids)
             /\ SelectSeq(chunks[k].kids, IsItemKind)
                  = SelectSeq(xmlfile.kids, IsCategory)
                      \o DataItems(chunks[k].kids)

\* C17 witness: a chunk written from a source that holds a category marker,
\* a child that is no question, and a data item.
C17_Witness ==
    /\ SplitEntered
    /\ Len(chunks) >= 1
    /\ \E el \in NodesOf(xmlfile.kids) : IsCategory(el)
    /\ \E el \in NodesOf(xmlfile.kids) : ~IsItemKind(el)

\* C18: once merge_xml has returned, the output document exists at the
\* output path and holds the merged tree.
C18_OutputStandsAfterReturn ==
    mpc = "done" => fs[outPath] = XmlDoc(roots[1])

\* C19: size mode with no file cap loses no data: the data items of the
\* chunks, concatenated, are the source's data items, each once.
C19_SizeModeLosesNothing ==
    (spc = "done" /\ sargs.op = "size" /\ ~sargs.nfiles.some) =>
        ConcatItems(chunks) = SrcItems

(***************************************************************************)
(* Properties of run(), gen_files and compile_files.                       *)
(***************************************************************************)
InList(j) == \E i \in 1..Len(tempxmlfiles) : tempxmlfiles[i] = j

ArtifactExists(j) == fs[j].st # "missing"

\* C11: a job's artifact path is among the merge inputs if and only if the
\* artifact exists once the job's passes are over, so when merge_xml is
\* called every path of its input list names an existing file.
C11_MergeInputsExist ==
    /\ \A j \in 1..nrec :
        (mpc = "idle" /\ jpc[j] \in {"cleanup", "done"} /\ ~jraised[j])
            => (InList(j) <=> ArtifactExists(j))
    /\ mpc = "call" =>
        \A i \in 1..Len(xml_files) : fs[xml_files[i]].st # "missing"

Cmds(ps) == [i \in 1..Len(ps) |-> ps[i].cmd]

AllPassesRun(j) == jpc[j] = "append"

JobEnded(j) == jpc[j] \in {"done", "raised"}

\* C13: when retention is not requested, once a job has ended none of its
\* token-named temporary files remains (but the XML file), comment.cut is
\* absent and the job's pythontex directory is absent; when retention is
\* requested, what the job wrote is still there.
C13_CleanupAlwaysRuns ==
    \A j \in 1..nrec :
        /\ (JobEnded(j) /\ delete_temps) =>
            /\ \A n \in TokenNames \ {".xml"} : wd[TempName(j, n)] = Absent
            /\ wd[FixedName("comment.cut")] = Absent
        /\ (jpc[j] = "done" /\ ~delete_temps) =>
            /\ wd[TempName(j, ".tex")] # Absent
            /\ wd[TempName(j, ".log")] # Absent
            /\ pythontex => wd[TempName(j, "pythontex-files-")] # Absent
            /\ pythontex => wd[FixedName("comment.cut")] # Absent

\* The rows whose gen_files call returned and whose artifact was on disk
\* when merge_xml was called, in row order.
RECURSIVE SucceededUpTo(_)
SucceededUpTo(n) ==
    IF n = 0 THEN <<>>
    ELSE IF jpc[n] = "done" /\ fs0[n].st # "missing"
         THEN Append(SucceededUpTo(n - 1), n)
         ELSE SucceededUpTo(n - 1)

\* C15: the failure of a job is isolated.  When run() has come to its end
\* (no step of it is left), every row has been processed, and if some job
\* succeeded merge_xml was called on the artifacts of the jobs that
\* succeeded and did not fail on a missing file.
C15_FailuresIsolated ==
    (nrec > 0 /\ ~ENABLED NextRun) =>
        /\ \A j \in 1..nrec : JobEnded(j)
        /\ (\E j \in 1..nrec : jpc[j] = "done" /\ ArtifactExists(j)) =>
            /\ mpc # "idle"
            /\ xml_files = SucceededUpTo(nrec)
            /\ merr.kind # "FileNotFoundError"

\* C16: with pythontex disabled, no step of one job overwrites or deletes a
\* file produced for the other: a temporary file that exists, and an
\* artifact, change only in a step of the job they were written for.
C16_NoCrossJobWrite ==
    [][~pythontex =>
        /\ \A f \in TempNames :
            (wd[f] # Absent /\ wd'[f] # wd[f]) => jpc'[wd[f]] # jpc[wd[f]]
        /\ \A j \in 1..nrec :
            (ArtifactExists(j) /\ fs'[j] # fs[j]) => jpc'[j] # jpc[j]]_vars

(***************************************************************************)
(* Properties of render_file's rewriting.                                  *)
(***************************************************************************)
\* C14: the removal of the draft option is idempotent: applied to its own
\* result it changes nothing.
C14_TransformIdempotent ==
    napplied = 2 => document = document1

====
